---- MODULE Spec2Model ----
(***************************************************************************)
(* The five blocks of the SSH app (Execute Command, Execute Script, Upload *)
(* File, Download File, Host Metadata) as one state machine.  Every        *)
(* invocation of a block handler is a process; a step of a process is the  *)
(* settling of one awaited call together with the synchronous code that    *)
(* follows it up to the next await.  The remote host, the local file       *)
(* system and the platform's events.emit are the environment: each awaited *)
(* call settles with an outcome drawn from the outcomes it can have.       *)
(***************************************************************************)
EXTENDS Integers, Sequences, FiniteSets, TLC

\* ------------------------------------------------------------- bounds
\* Invocation slots of the model.
NumProcs == 2

Procs == 1..NumProcs

\* ------------------------------------------------------------- values
Kinds == {"executeCommand", "executeScript", "uploadFile", "downloadFile", "hostMetadata"}
EventKinds == Kinds \ {"hostMetadata"}
TransferKinds == {"uploadFile", "downloadFile"}

Hosts == {"h1"}
Keys == {"K1", "K2"}
\* The public key the server of each host presents.
ServerKey == [h \in Hosts |-> "K1"]
\* knownHosts of the app config: a mapping of some hosts to their keys.
KnownHostsChoices == UNION {[S -> Keys] : S \in SUBSET Hosts}

Null == <<>>
NoError == [step |-> "", msg |-> ""]

MsgNoKey == "SSH private key not configured in the app."
MsgNoUserInput == "Username must be specified either in app config or input config."
MsgNoUserBlock == "Username must be specified either in app config or block config."
MsgConnectPrefix == "Failed to connect to host: "

\* Text is a sequence of one-character strings.
Whitespace == {" ", "\n", "\t"}

VARIABLES
    appConfig,      \* input.app.config: privateKey, username, knownHosts
    input,          \* per invocation: kind and input.event.inputConfig / input.block.config
    pc,             \* per invocation: the await the handler is at
    session,        \* per invocation: the NodeSSH object: none, new, connected, disposed
    finalUsername,  \* per invocation: const finalUsername
    tempFilePath,   \* per invocation: let tempFilePath (local staging file), or Null
    tempFile,       \* per invocation: const tempFile (remote script path), or Null
    localFiles,     \* paths that exist in the local file system
    remoteFiles,    \* paths that exist in the remote file system
    res,            \* per invocation: the value each awaited remote command resolved with
    pending,        \* per invocation: the error thrown out of the try block, or NoError
    emitted,        \* per invocation: the events events.emit delivered
    outcome,        \* per invocation: what the caller gets: resolved, rejected, ready, failed
    signals,        \* per invocation: signalUpdates of Host Metadata, or Null
    calls,          \* per invocation: the external calls dispatched, in order
    warnings,       \* per invocation: what console.warn logged
    clock,          \* what Date.now() returns, in ticks
    timers,         \* per invocation of a timed operation: const startTime, const
                    \* duration, and when the session was connected and the command
                    \* dispatched and returned
    localData,      \* per invocation: the bytes of its local staging file
    remoteData,     \* the file at each remote path of a transfer: exists, bytes
    scriptData,     \* per invocation: the lines of its remote script file
    buffer,         \* per invocation: const buffer of Download File
    size            \* per invocation: const size (stats.size)

vars == <<appConfig, input, pc, session, finalUsername, tempFilePath, tempFile,
          localFiles, remoteFiles, res, pending, emitted, outcome, signals,
          calls, warnings, clock, timers, localData, remoteData, scriptData,
          buffer, size>>

\* ------------------------------------------------------------- steps
Steps == {"createScript", "chmod", "exec", "stat", "hostname", "osType", "osRelease",
          "architecture", "uptime", "loadAverage", "memory", "rm", "unlink"}
\* No value: the call was not made, or it rejected.
NotRun == [code |-> -1, stdout |-> <<>>, stderr |-> <<>>]
\* The value of a resolved call that carries no output.
Resolved == [code |-> 0, stdout |-> <<>>, stderr |-> <<>>]

KindOf(p) == input[p].kind

\* ------------------------------------------------------------- configuration
\* Mutant: the private key is never checked.
HasPrivateKeyUnchecked(cfg) == TRUE

\* if (!privateKey)
HasPrivateKey(cfg) == cfg.privateKey # ""

\* Mutant: the app-level default takes precedence over the per-call username.
FinalUsernameAppFirst(username, defaultUsername) ==
    IF defaultUsername # "" THEN defaultUsername ELSE username

\* Mutant: a hard-wired fallback user when neither username is given.
FinalUsernameFallback(username, defaultUsername) ==
    IF username # "" THEN username ELSE IF defaultUsername # "" THEN defaultUsername ELSE "root"

\* const finalUsername = username || defaultUsername;  (undefined and "" are both falsy)
FinalUsername(username, defaultUsername) ==
    IF username # "" THEN username ELSE defaultUsername

\* The options object the handlers hand to ssh.connect: host, username, port,
\* privateKey.  No host verifier and no expected host key is among them.
ConnectConfig(p) ==
    [host |-> input[p].host, username |-> finalUsername[p],
     privateKey |-> appConfig.privateKey]

\* ssh.connect of the library: with no host verifier in the options every
\* presented host key is accepted; the attempt fails on the transport or on
\* authentication only.
ConnectErrors == {"connect ECONNREFUSED", "All configured authentication methods failed"}
SshConnect(cc) ==
    IF "hostVerifier" \in DOMAIN cc /\ cc.hostVerifier # ServerKey[cc.host]
    THEN {"Host key verification failed"}
    ELSE {"ok"} \cup ConnectErrors


\* ssh.execCommand of the library on a session in state sess: it rejects at once
\* when the session is not connected, and otherwise resolves with one of
\* Results (whatever the exit code) or rejects when the channel fails.
SshExec(sess, Results) ==
    IF sess # "connected"
    THEN {[thrown |-> TRUE, msg |-> "Not connected to server", r |-> NotRun]}
    ELSE {[thrown |-> FALSE, msg |-> "", r |-> x] : x \in Results}
         \cup {[thrown |-> TRUE, msg |-> "Channel open failure", r |-> NotRun]}

\* What a command of the caller can resolve with.
CommandResults ==
    [code : {0, 7}, stdout : {<<>>, <<"o">>}, stderr : {<<>>, <<"e">>}]
\* What a staging or cleanup command can resolve with.
PlainResults == [code : {0, 1}, stdout : {<<>>}, stderr : {<<>>}]

\* ------------------------------------------------------------- encodings
\* A string of JavaScript is a sequence of UTF-16 code units.  The code units of
\* the model: the signs of base64 stand for themselves, "eacute" is U+00E9,
\* "FFFD" is U+FFFD (the replacement character), <<"HS", "LS">> is the surrogate
\* pair of U+1F600, and "HS" or "LS" on its own is an unpaired surrogate.
\* A buffer is a sequence of bytes 0..255.
B64Alphabet ==
    <<"A", "B", "C", "D", "E", "F", "G", "H", "I", "J", "K", "L", "M",
      "N", "O", "P", "Q", "R", "S", "T", "U", "V", "W", "X", "Y", "Z",
      "a", "b", "c", "d", "e", "f", "g", "h", "i", "j", "k", "l", "m",
      "n", "o", "p", "q", "r", "s", "t", "u", "v", "w", "x", "y", "z",
      "0", "1", "2", "3", "4", "5", "6", "7", "8", "9", "+", "/">>
B64Chars == {B64Alphabet[i] : i \in 1..Len(B64Alphabet)}
IsB64Char(c) == c \in B64Chars
B64Index(c) == (CHOOSE i \in 1..Len(B64Alphabet) : B64Alphabet[i] = c) - 1

AsciiChars == B64Chars \cup {"=", " "}
AsciiCode(c) ==
    CASE c = "=" -> 61
      [] c = " " -> 32
      [] c = "+" -> 43
      [] c = "/" -> 47
      [] OTHER -> LET i == B64Index(c)
                  IN IF i < 26 THEN 65 + i ELSE IF i < 52 THEN 71 + i ELSE i - 4
AsciiCodes == {AsciiCode(c) : c \in AsciiChars}
AsciiChar(b) == CHOOSE c \in AsciiChars : AsciiCode(c) = b

\* The part of s before the first element equal to x; all of s without one.
RECURSIVE Before(_, _)
Before(s, x) ==
    IF s = <<>> \/ Head(s) = x THEN <<>> ELSE <<Head(s)>> \o Before(Tail(s), x)

\* The bytes a string is written as (fs.writeFile of a string encodes UTF-8): an
\* unpaired surrogate has no UTF-8 form and is written as U+FFFD.
RECURSIVE Utf8Encode(_)
Utf8Encode(str) ==
    IF str = <<>> THEN <<>>
    ELSE IF Head(str) = "HS" /\ Len(str) >= 2 /\ str[2] = "LS"
         THEN <<240, 159, 152, 128>> \o Utf8Encode(Tail(Tail(str)))
    ELSE IF Head(str) \in {"HS", "LS", "FFFD"}
         THEN <<239, 191, 189>> \o Utf8Encode(Tail(str))
    ELSE IF Head(str) = "eacute"
         THEN <<195, 169>> \o Utf8Encode(Tail(str))
    ELSE <<AsciiCode(Head(str))>> \o Utf8Encode(Tail(str))

\* buffer.toString("utf8"): well-formed sequences decode to their code units, a
\* byte that starts none is replaced by U+FFFD.  (The sequences of the model's
\* alphabet are the ones told apart.)
RECURSIVE Utf8Decode(_)
Utf8Decode(bytes) ==
    IF bytes = <<>> THEN <<>>
    ELSE IF Head(bytes) \in AsciiCodes
         THEN <<AsciiChar(Head(bytes))>> \o Utf8Decode(Tail(bytes))
    ELSE IF Len(bytes) >= 2 /\ SubSeq(bytes, 1, 2) = <<195, 169>>
         THEN <<"eacute">> \o Utf8Decode(SubSeq(bytes, 3, Len(bytes)))
    ELSE IF Len(bytes) >= 3 /\ SubSeq(bytes, 1, 3) = <<239, 191, 189>>
         THEN <<"FFFD">> \o Utf8Decode(SubSeq(bytes, 4, Len(bytes)))
    ELSE IF Len(bytes) >= 4 /\ SubSeq(bytes, 1, 4) = <<240, 159, 152, 128>>
         THEN <<"HS", "LS">> \o Utf8Decode(SubSeq(bytes, 5, Len(bytes)))
    ELSE <<"FFFD">> \o Utf8Decode(Tail(bytes))

\* buffer.toString("base64"): three bytes to four signs, the last group padded with "=".
RECURSIVE Base64Encode(_)
Base64Encode(bytes) ==
    LET sign(n) == B64Alphabet[n + 1]
    IN IF bytes = <<>> THEN <<>>
       ELSE IF Len(bytes) = 1
            THEN <<sign(bytes[1] \div 4), sign((bytes[1] % 4) * 16), "=", "=">>
       ELSE IF Len(bytes) = 2
            THEN <<sign(bytes[1] \div 4), sign((bytes[1] % 4) * 16 + bytes[2] \div 16),
                   sign((bytes[2] % 16) * 4), "=">>
       ELSE <<sign(bytes[1] \div 4), sign((bytes[1] % 4) * 16 + bytes[2] \div 16),
              sign((bytes[2] % 16) * 4 + bytes[3] \div 64), sign(bytes[3] % 64)>>
            \o Base64Encode(SubSeq(bytes, 4, Len(bytes)))

RECURSIVE B64Groups(_)
B64Groups(ix) ==
    IF Len(ix) < 2 THEN <<>>
    ELSE IF Len(ix) = 2 THEN <<ix[1] * 4 + ix[2] \div 16>>
    ELSE IF Len(ix) = 3
         THEN <<ix[1] * 4 + ix[2] \div 16, (ix[2] % 16) * 16 + ix[3] \div 4>>
    ELSE <<ix[1] * 4 + ix[2] \div 16, (ix[2] % 16) * 16 + ix[3] \div 4,
           (ix[3] % 4) * 64 + ix[4]>> \o B64Groups(SubSeq(ix, 5, Len(ix)))
\* Buffer.from(str, "base64"): decoding ends at the first "=", signs outside the
\* alphabet are skipped, and a last group of one sign gives no byte.
Base64Decode(str) ==
    LET signs == SelectSeq(Before(str, "="), IsB64Char)
    IN B64Groups([i \in 1..Len(signs) |-> B64Index(signs[i])])

\* Mutant: the content is written as text whatever the encoding.
FileContentAsText(content, encoding) == Utf8Encode(content)

\* Upload: const fileContent = encoding === "base64" ? Buffer.from(content, "base64") : content,
\* as fs.writeFile writes it.
FileContent(content, encoding) ==
    IF encoding = "base64" THEN Base64Decode(content) ELSE Utf8Encode(content)

\* Download: const content = encoding === "base64" ? buffer.toString("base64")
\*                                                  : buffer.toString("utf8")
Content(buf, encoding) ==
    IF encoding = "base64" THEN Base64Encode(buf) ELSE Utf8Decode(buf)

\* The value of an input field with a default in the config schema: the
\* default when the caller supplies none ("").
WithDefault(value, default) == IF value = "" THEN default ELSE value
\* encoding: { ..., default: "text" } of Upload File
UploadEncodingDefault == "text"
\* encoding: { ..., default: "text" } of Download File
DownloadEncodingDefault == "text"

\* ------------------------------------------------------------- script staging
\* A script body is a sequence of lines.
Delimiter == "SPACELIFT_SCRIPT_EOF"
\* cat > "tempFile" << 'SPACELIFT_SCRIPT_EOF' \n script \n SPACELIFT_SCRIPT_EOF:
\* the remote shell takes the lines up to the first one that is the delimiter as
\* the here-document (unexpanded, the delimiter being quoted) and writes them.
CreateScriptCommand(script) == script \o <<Delimiter>>
HereDocument(commandLines) == Before(commandLines, Delimiter)

\* ------------------------------------------------------------- paths
\* Mutant: every invocation stages at the same local path.
LocalPathShared(p) == <<"tmpdir", "ssh-transfer", 0>>

LocalPath(p) == <<"tmpdir", KindOf(p), p>>
ScriptPath(p) == <<"/tmp/spacelift_script", p>>

\* ------------------------------------------------------------- initial state
\* What Upload File is given as content and encoding ("": none supplied).
UploadPayloads ==
    {[encoding |-> "text", content |-> <<"a", "eacute">>],
     [encoding |-> "base64", content |-> <<"w", "6", "k", "=">>],
     [encoding |-> "", content |-> <<"a">>]}
\* What the file at sourcePath can hold: text, or bytes that are no UTF-8.
RemoteContents == {<<195, 169>>, <<255>>}
\* Script bodies: several lines with signs the shell would expand, and a body
\* with a line that is the delimiter of the here-document.
Scripts == {<<"a=$(id); echo $a | wc -c", "exit 7">>, <<"echo a", Delimiter, "exit 0">>}
NoPayload == [encoding |-> "", content |-> <<>>]

\* path is destinationPath of Upload File and sourcePath of Download File.
InputsOf(k) ==
    {[kind |-> k, host |-> h, username |-> u, path |-> pa, permissions |-> pe,
      encoding |-> pl.encoding, content |-> pl.content, script |-> sc] :
        h \in Hosts, u \in {"", "alice"},
        pa \in (IF k \in TransferKinds THEN {"/data/file"} ELSE {""}),
        pe \in (IF k = "uploadFile" THEN {"", "0644"} ELSE {""}),
        pl \in (CASE k = "uploadFile" -> UploadPayloads
                  [] k = "downloadFile" ->
                        {[encoding |-> e, content |-> <<>>] : e \in {"", "base64", "text"}}
                  [] OTHER -> {NoPayload}),
        sc \in (IF k = "executeScript" THEN Scripts ELSE {<<>>})}
Inputs == UNION {InputsOf(k) : k \in Kinds}
IdleInput ==
    [kind |-> "executeCommand", host |-> "h1", username |-> "", path |-> "",
     permissions |-> "", encoding |-> "", content |-> <<>>, script |-> <<>>]

TransferPaths == {"/data/file"}
NoFile == [exists |-> FALSE, bytes |-> <<>>]
NoTimers ==
    [startTime |-> -1, connected |-> -1, dispatched |-> -1, returned |-> -1,
     duration |-> -1]

AppConfigs ==
    [privateKey : {"", "PEM"}, username : {"", "root"}, knownHosts : KnownHostsChoices]

InitCommon ==
    /\ appConfig \in AppConfigs
    /\ session = [p \in Procs |-> "none"]
    /\ finalUsername = [p \in Procs |-> ""]
    /\ tempFilePath = [p \in Procs |-> Null]
    /\ tempFile = [p \in Procs |-> Null]
    /\ localFiles = {}
    /\ remoteFiles = {}
    /\ res = [p \in Procs |-> [s \in Steps |-> NotRun]]
    /\ pending = [p \in Procs |-> NoError]
    /\ emitted = [p \in Procs |-> <<>>]
    /\ outcome = [p \in Procs |-> [status |-> "running", prefix |-> "", msg |-> ""]]
    /\ signals = [p \in Procs |-> Null]
    /\ calls = [p \in Procs |-> <<>>]
    /\ warnings = [p \in Procs |-> <<>>]
    /\ clock = 0
    /\ timers = [p \in Procs |-> NoTimers]
    /\ localData = [p \in Procs |-> <<>>]
    /\ scriptData = [p \in Procs |-> <<>>]
    /\ buffer = [p \in Procs |-> <<>>]
    /\ size = [p \in Procs |-> -1]

\* One invocation, in any slot, of any block with any configuration; the file
\* a download is to fetch is on the remote host.
Init ==
    /\ InitCommon
    /\ \E a \in Procs, i \in Inputs :
          /\ input = [p \in Procs |-> IF p = a THEN i ELSE IdleInput]
          /\ pc = [p \in Procs |-> IF p = a THEN "begin" ELSE "idle"]
          /\ IF i.kind = "downloadFile"
             THEN \E b \in RemoteContents :
                     remoteData = [f \in TransferPaths |-> [exists |-> TRUE, bytes |-> b]]
             ELSE remoteData = [f \in TransferPaths |-> NoFile]

\* ------------------------------------------------------------- text
Digits == {"0", "1", "2", "3", "4", "5", "6", "7", "8", "9"}
DigitVal(c) ==
    CASE c = "0" -> 0 [] c = "1" -> 1 [] c = "2" -> 2 [] c = "3" -> 3 [] c = "4" -> 4
      [] c = "5" -> 5 [] c = "6" -> 6 [] c = "7" -> 7 [] c = "8" -> 8 [] c = "9" -> 9

RECURSIVE TrimStart(_)
TrimStart(s) ==
    IF s # <<>> /\ Head(s) \in Whitespace THEN TrimStart(Tail(s)) ELSE s
RECURSIVE TrimEnd(_)
TrimEnd(s) ==
    IF s # <<>> /\ s[Len(s)] \in Whitespace THEN TrimEnd(SubSeq(s, 1, Len(s) - 1)) ELSE s
\* String.prototype.trim
Trim(s) == TrimEnd(TrimStart(s))

\* String.prototype.toLowerCase, on the letters the model's texts hold
LowerChar(c) == CASE c = "L" -> "l" [] c = "W" -> "w" [] OTHER -> c
ToLowerCase(s) == [i \in 1..Len(s) |-> LowerChar(s[i])]

\* A number of JavaScript: a value, or NaN.
NaN == [nan |-> TRUE, v |-> 0]
Num(n) == [nan |-> FALSE, v |-> n]

RECURSIVE LeadingDigits(_, _)
LeadingDigits(s, acc) ==
    IF s # <<>> /\ Head(s) \in Digits
    THEN LeadingDigits(Tail(s), acc * 10 + DigitVal(Head(s)))
    ELSE acc
\* parseInt / parseFloat on a text of digits: the number its leading digits
\* spell (leading white space skipped), NaN when it does not start with a digit.
ParseNumber(s) ==
    LET t == TrimStart(s)
    IN IF t # <<>> /\ Head(t) \in Digits THEN Num(LeadingDigits(t, 0)) ELSE NaN

\* x || 0 on a number: NaN and 0 are falsy
OrZero(x) == IF x.nan THEN 0 ELSE x.v

\* String.prototype.split on a separator that matches one character of Seps
\* (greedy: a run of them, as /[, ]+/ does) or exactly one character.
RECURSIVE SkipSeps(_, _)
SkipSeps(s, Seps) ==
    IF s # <<>> /\ Head(s) \in Seps THEN SkipSeps(Tail(s), Seps) ELSE s
RECURSIVE SplitFrom(_, _, _, _)
SplitFrom(s, Seps, greedy, cur) ==
    IF s = <<>> THEN <<cur>>
    ELSE IF Head(s) \in Seps
         THEN <<cur>> \o SplitFrom(IF greedy THEN SkipSeps(s, Seps) ELSE Tail(s),
                                   Seps, greedy, <<>>)
         ELSE SplitFrom(Tail(s), Seps, greedy, Append(cur, Head(s)))
Split(s, Seps, greedy) == SplitFrom(s, Seps, greedy, <<>>)

\* ------------------------------------------------------------- remote stat output
\* What stat -c "%a %Y" "sourcePath" can resolve with: mode and mtime, nothing
\* on stdout with a non-zero exit code, or output of another form.
StatResults ==
    {[code |-> 0, stdout |-> <<"6", "4", "4", " ", "1", "7", "\n">>, stderr |-> <<>>],
     [code |-> 1, stdout |-> <<>>, stderr |-> <<"e">>],
     [code |-> 0, stdout |-> <<"6", "4", "4", " ", "?", "\n">>, stderr |-> <<>>]}

\* const [permissions, modifiedTimestamp] = statResult.stdout.trim().split(" ")
StatFields(stdout) ==
    LET parts == Split(Trim(stdout), {" "}, FALSE)
    IN [permissions |-> parts[1],
        modifiedTimestamp |-> IF Len(parts) >= 2 THEN parts[2] ELSE <<>>]

\* Mutant: the date is printed whatever the timestamp.
ModifiedTimeNeverThrows(stdout) == FALSE

\* new Date(parseInt(modifiedTimestamp) * 1000).toISOString() throws a RangeError
\* on an invalid date
ModifiedTimeThrows(stdout) == ParseNumber(StatFields(stdout).modifiedTimestamp).nan
\* the time toISOString prints, in milliseconds since the epoch
ModifiedTime(stdout) == ParseNumber(StatFields(stdout).modifiedTimestamp).v * 1000

\* ------------------------------------------------------------- control flow
\* The first await after a successful connect.
FirstStep(k) ==
    CASE k = "executeCommand" -> "execCommand"
      [] k = "executeScript" -> "createScript"
      [] k = "uploadFile" -> "writeFile"
      [] k = "downloadFile" -> "getFile"
      [] k = "hostMetadata" -> "hostname"

\* Mutant: the failed call is made again.
ThrowAndRetry(p, step, msg) ==
    /\ pending' = [pending EXCEPT ![p] = [step |-> step, msg |-> msg]]
    /\ pc' = pc

\* Mutant: no finally block, the error leaves the handler at once.
ThrowPastFinally(p, step, msg) ==
    /\ pending' = [pending EXCEPT ![p] = [step |-> step, msg |-> msg]]
    /\ pc' = [pc EXCEPT ![p] = "done"]

\* An error thrown inside the try block: control leaves for the finally block
\* (through the catch block, in Host Metadata).
Throw(p, step, msg) ==
    /\ pending' = [pending EXCEPT ![p] = [step |-> step, msg |-> msg]]
    /\ pc' = [pc EXCEPT ![p] = "finally"]

Dispatch(p, name) == calls' = [calls EXCEPT ![p] = Append(@, name)]

\* const duration = Date.now() - startTime
Elapsed(now, startTime) == now - startTime

\* An awaited call takes one tick of the clock: Settled is what Date.now()
\* returns once it has settled.
Settled == clock + 1
Tick == clock' = Settled
\* Date.now()
Now == clock

\* Mutant: onSync without its catch block, an error leaves it as in the handlers.
CompletionUncaught(k, pend) ==
    IF pend = NoError
    THEN [status |-> IF k = "hostMetadata" THEN "ready" ELSE "resolved", prefix |-> "", msg |-> ""]
    ELSE [status |-> "rejected", prefix |-> "", msg |-> pend.msg]

\* What the caller gets once the finally block is through, from the completion
\* of the try block: an event handler resolves or rejects with the error
\* thrown; Host Metadata returns ready, or failed from its catch block.
Completion(k, pend) ==
    IF k = "hostMetadata"
    THEN IF pend = NoError
         THEN [status |-> "ready", prefix |-> "", msg |-> ""]
         ELSE [status |-> "failed", prefix |-> MsgConnectPrefix, msg |-> pend.msg]
    ELSE IF pend = NoError
         THEN [status |-> "resolved", prefix |-> "", msg |-> ""]
         ELSE [status |-> "rejected", prefix |-> "", msg |-> pend.msg]

\* A configuration fault: thrown by an event handler, returned as failed by
\* Host Metadata; before any session exists.
ConfigFault(k, msg) ==
    [status |-> IF k = "hostMetadata" THEN "failed" ELSE "rejected",
     prefix |-> "", msg |-> msg]

\* The entry of a handler up to its first await: the two configuration checks,
\* new NodeSSH(), in Execute Command and Execute Script const startTime =
\* Date.now(), and in Execute Script the choice of the remote temp path.
Begin(p) ==
    /\ pc[p] = "begin"
    /\ LET k == KindOf(p)
           u == FinalUsername(input[p].username, appConfig.username)
       IN IF ~HasPrivateKey(appConfig)
          THEN /\ outcome' = [outcome EXCEPT ![p] = ConfigFault(k, MsgNoKey)]
               /\ pc' = [pc EXCEPT ![p] = "done"]
               /\ UNCHANGED <<session, finalUsername, tempFile, timers>>
          ELSE IF u = ""
          THEN /\ outcome' = [outcome EXCEPT ![p] = ConfigFault(k,
                      IF k = "hostMetadata" THEN MsgNoUserBlock ELSE MsgNoUserInput)]
               /\ pc' = [pc EXCEPT ![p] = "done"]
               /\ UNCHANGED <<session, finalUsername, tempFile, timers>>
          ELSE /\ finalUsername' = [finalUsername EXCEPT ![p] = u]
               /\ session' = [session EXCEPT ![p] = "new"]
               /\ timers' = [timers EXCEPT ![p].startTime =
                      IF k \in {"executeCommand", "executeScript"} THEN Now ELSE @]
               /\ tempFile' = [tempFile EXCEPT ![p] =
                      IF k = "executeScript" THEN ScriptPath(p) ELSE @]
               /\ pc' = [pc EXCEPT ![p] = "connect"]
               /\ UNCHANGED outcome
    /\ UNCHANGED <<clock, localData, remoteData, scriptData, buffer, size>>
    /\ UNCHANGED <<appConfig, input, tempFilePath, localFiles, remoteFiles, res,
                   pending, emitted, signals, calls, warnings>>

\* await ssh.connect({host, username, port, privateKey}); in the transfer blocks
\* the local temp path is chosen right after it.
Connect(p) ==
    /\ pc[p] = "connect"
    /\ Dispatch(p, "connect")
    /\ \E o \in SshConnect(ConnectConfig(p)) :
          IF o = "ok"
          THEN /\ session' = [session EXCEPT ![p] = "connected"]
               /\ timers' = [timers EXCEPT ![p].connected =
                      IF KindOf(p) \in {"executeCommand", "executeScript"} THEN Settled
                      ELSE @]
               /\ tempFilePath' = [tempFilePath EXCEPT ![p] =
                      IF KindOf(p) \in TransferKinds THEN LocalPath(p) ELSE @]
               /\ pc' = [pc EXCEPT ![p] = FirstStep(KindOf(p))]
               /\ UNCHANGED pending
          ELSE /\ Throw(p, "connect", o)
               /\ UNCHANGED <<session, tempFilePath, timers>>
    /\ Tick
    /\ UNCHANGED <<localData, remoteData, scriptData, buffer, size>>
    /\ UNCHANGED <<appConfig, input, finalUsername, tempFile, localFiles, remoteFiles,
                   res, emitted, outcome, signals, warnings>>

\* Execute Command: const result = await ssh.execCommand(command, {cwd}).
ExecCommand(p) ==
    /\ pc[p] = "execCommand"
    /\ Dispatch(p, "exec")
    /\ \E o \in SshExec(session[p], CommandResults) :
          IF o.thrown
          THEN /\ Throw(p, "exec", o.msg)
               /\ timers' = [timers EXCEPT ![p].dispatched = clock]
               /\ UNCHANGED res
          ELSE /\ res' = [res EXCEPT ![p]["exec"] = o.r]
               /\ timers' = [timers EXCEPT ![p].dispatched = clock,
                                            ![p].returned = Settled,
                                            ![p].duration = Elapsed(Settled, timers[p].startTime)]
               /\ pc' = [pc EXCEPT ![p] = "emit"]
               /\ UNCHANGED pending
    /\ Tick
    /\ UNCHANGED <<localData, remoteData, scriptData, buffer, size>>
    /\ UNCHANGED <<appConfig, input, session, finalUsername, tempFilePath, tempFile,
                   localFiles, remoteFiles, emitted, outcome, signals, warnings>>

\* The encoding a transfer handler reads from its input.
Encoding(p) ==
    WithDefault(input[p].encoding,
                IF KindOf(p) = "uploadFile" THEN UploadEncodingDefault
                ELSE DownloadEncodingDefault)

\* The results of Upload File and of Download File.
TransferPayload(p) ==
    IF KindOf(p) = "uploadFile"
    THEN [path |-> input[p].path, size |-> size[p]]
    ELSE [content |-> Content(buffer[p], Encoding(p)),
          path |-> input[p].path,
          size |-> size[p],
          permissions |-> StatFields(res[p]["stat"].stdout).permissions,
          modifiedTime |-> ModifiedTime(res[p]["stat"].stdout)]

\* Mutant: the exit code is not passed on.
EmitPayloadExitZero(p) ==
    CASE KindOf(p) \in {"executeCommand", "executeScript"} ->
            [stdout |-> res[p]["exec"].stdout, stderr |-> res[p]["exec"].stderr,
             exitCode |-> 0, duration |-> timers[p].duration]
      [] OTHER -> TransferPayload(p)

\* The event a handler hands to events.emit.
EmitPayload(p) ==
    CASE KindOf(p) \in {"executeCommand", "executeScript"} ->
            [stdout |-> res[p]["exec"].stdout, stderr |-> res[p]["exec"].stderr,
             exitCode |-> res[p]["exec"].code, duration |-> timers[p].duration]
      [] OTHER -> TransferPayload(p)

\* await events.emit({...}): the last await of the try block of an event handler.
Emit(p) ==
    /\ pc[p] = "emit"
    /\ Dispatch(p, "emit")
    /\ \E delivered \in BOOLEAN :
          IF delivered
          THEN /\ emitted' = [emitted EXCEPT ![p] = Append(@, EmitPayload(p))]
               /\ pc' = [pc EXCEPT ![p] = "finally"]
               /\ UNCHANGED pending
          ELSE Throw(p, "emit", "emit failed") /\ UNCHANGED emitted
    /\ Tick
    /\ UNCHANGED <<timers, localData, remoteData, scriptData, buffer, size>>
    /\ UNCHANGED <<appConfig, input, session, finalUsername, tempFilePath, tempFile,
                   localFiles, remoteFiles, res, outcome, signals, warnings>>

\* finally { ssh.dispose(); } of Execute Command and Host Metadata.
Finally(p) ==
    /\ pc[p] = "finally"
    /\ KindOf(p) \in {"executeCommand", "hostMetadata"}
    /\ Dispatch(p, "dispose")
    /\ session' = [session EXCEPT ![p] = "disposed"]
    /\ outcome' = [outcome EXCEPT ![p] = Completion(KindOf(p), pending[p])]
    /\ pc' = [pc EXCEPT ![p] = "done"]
    /\ UNCHANGED <<clock, timers, localData, remoteData, scriptData, buffer, size>>
    /\ UNCHANGED <<appConfig, input, finalUsername, tempFilePath, tempFile, localFiles,
                   remoteFiles, res, pending, emitted, signals, warnings>>


\* ------------------------------------------------------------- Execute Script
\* await ssh.execCommand(createScriptCommand): cat > "tempFile" << 'SPACELIFT_SCRIPT_EOF'.
\* The file exists after exit code 0; after another exit code or a lost channel
\* the remote shell may or may not have created it.  The exit code is not read.
CreateScript(p) ==
    /\ pc[p] = "createScript"
    /\ Dispatch(p, "exec:createScript")
    /\ \E o \in SshExec(session[p], PlainResults) :
       \E created \in (IF ~o.thrown /\ o.r.code = 0 THEN {TRUE} ELSE BOOLEAN) :
          /\ remoteFiles' = IF created THEN remoteFiles \cup {tempFile[p]} ELSE remoteFiles
          /\ scriptData' = [scriptData EXCEPT ![p] =
                 IF created THEN HereDocument(CreateScriptCommand(input[p].script)) ELSE @]
          /\ IF o.thrown
             THEN Throw(p, "createScript", o.msg) /\ UNCHANGED res
             ELSE /\ res' = [res EXCEPT ![p]["createScript"] = o.r]
                  /\ pc' = [pc EXCEPT ![p] = "chmodScript"]
                  /\ UNCHANGED pending
    /\ Tick
    /\ UNCHANGED <<timers, localData, remoteData, buffer, size>>
    /\ UNCHANGED <<appConfig, input, session, finalUsername, tempFilePath, tempFile,
                   localFiles, emitted, outcome, signals, warnings>>

\* Mutant: a chmod that exits non-zero is taken as a failure of the operation.
ChmodScriptChecked(p) ==
    /\ pc[p] = "chmodScript"
    /\ Dispatch(p, "exec:chmod")
    /\ \E o \in SshExec(session[p], PlainResults) :
          IF o.thrown
          THEN Throw(p, "chmod", o.msg) /\ UNCHANGED res
          ELSE /\ res' = [res EXCEPT ![p]["chmod"] = o.r]
               /\ IF o.r.code # 0
                  THEN Throw(p, "chmod", "chmod failed")
                  ELSE pc' = [pc EXCEPT ![p] = "execScript"] /\ UNCHANGED pending
    /\ Tick
    /\ UNCHANGED <<appConfig, input, session, finalUsername, tempFilePath, tempFile,
                   localFiles, remoteFiles, emitted, outcome, signals, warnings,
                   timers, localData, remoteData, scriptData, buffer, size>>

\* await ssh.execCommand(`chmod +x "${tempFile}"`); the exit code is not read.
ChmodScript(p) ==
    /\ pc[p] = "chmodScript"
    /\ Dispatch(p, "exec:chmod")
    /\ \E o \in SshExec(session[p], PlainResults) :
          IF o.thrown
          THEN Throw(p, "chmod", o.msg) /\ UNCHANGED res
          ELSE /\ res' = [res EXCEPT ![p]["chmod"] = o.r]
               /\ pc' = [pc EXCEPT ![p] = "execScript"]
               /\ UNCHANGED pending
    /\ Tick
    /\ UNCHANGED <<timers, localData, remoteData, scriptData, buffer, size>>
    /\ UNCHANGED <<appConfig, input, session, finalUsername, tempFilePath, tempFile,
                   localFiles, remoteFiles, emitted, outcome, signals, warnings>>

\* const result = await ssh.execCommand(`${finalInterpreter} "${tempFile}"`, {cwd}).
ExecScript(p) ==
    /\ pc[p] = "execScript"
    /\ Dispatch(p, "exec")
    /\ \E o \in SshExec(session[p], CommandResults) :
          IF o.thrown
          THEN /\ Throw(p, "exec", o.msg)
               /\ timers' = [timers EXCEPT ![p].dispatched = clock]
               /\ UNCHANGED res
          ELSE /\ res' = [res EXCEPT ![p]["exec"] = o.r]
               /\ timers' = [timers EXCEPT ![p].dispatched = clock,
                                            ![p].returned = Settled,
                                            ![p].duration = Elapsed(Settled, timers[p].startTime)]
               /\ pc' = [pc EXCEPT ![p] = "emit"]
               /\ UNCHANGED pending
    /\ Tick
    /\ UNCHANGED <<localData, remoteData, scriptData, buffer, size>>
    /\ UNCHANGED <<appConfig, input, session, finalUsername, tempFilePath, tempFile,
                   localFiles, remoteFiles, emitted, outcome, signals, warnings>>

\* Mutant: no catch around the cleanup step, its error replaces the completion.
AfterCleanupUncaught(pend, e) == e

\* A cleanup step wrapped in try { ... } catch (e) { }: the error e it throws is
\* dropped, and the completion pend of the try block stands.
AfterCleanup(pend, e) == pend

\* Mutant: the session is disposed before the removal is attempted on it.
ScriptFinallyDisposeFirst(p) ==
    /\ pc[p] = "finally"
    /\ KindOf(p) = "executeScript"
    /\ calls' = [calls EXCEPT ![p] = @ \o <<"dispose", "exec:rm">>]
    /\ \E o \in SshExec("disposed", PlainResults) :
          /\ res' = [res EXCEPT ![p]["rm"] = o.r]
          /\ warnings' = [warnings EXCEPT ![p] =
                 Append(@, <<"Failed to clean up temporary script file", o.msg>>)]
    /\ session' = [session EXCEPT ![p] = "disposed"]
    /\ outcome' = [outcome EXCEPT ![p] = Completion(KindOf(p), pending[p])]
    /\ pc' = [pc EXCEPT ![p] = "done"]
    /\ Tick
    /\ UNCHANGED <<appConfig, input, finalUsername, tempFilePath, tempFile, localFiles,
                   remoteFiles, pending, emitted, signals, timers, localData,
                   remoteData, scriptData, buffer, size>>

\* finally { try { await ssh.execCommand(`rm -f "${tempFile}"`) } catch { console.warn }
\*           ssh.dispose(); }
\* rm -f removes the file when it exits 0, leaves it when it exits otherwise, and
\* when the call rejects on a connected session the command may or may not have run.
ScriptFinally(p) ==
    /\ pc[p] = "finally"
    /\ KindOf(p) = "executeScript"
    /\ calls' = [calls EXCEPT ![p] = @ \o <<"exec:rm", "dispose">>]
    /\ \E o \in SshExec(session[p], PlainResults) :
       \E removed \in (IF o.thrown
                       THEN (IF session[p] = "connected" THEN BOOLEAN ELSE {FALSE})
                       ELSE {o.r.code = 0}) :
          /\ remoteFiles' = IF removed THEN remoteFiles \ {tempFile[p]} ELSE remoteFiles
          /\ res' = [res EXCEPT ![p]["rm"] = o.r]
          /\ warnings' = [warnings EXCEPT ![p] =
                 IF o.thrown THEN Append(@, <<"Failed to clean up temporary script file", o.msg>>)
                 ELSE @]
          /\ pending' = [pending EXCEPT ![p] =
                 IF o.thrown THEN AfterCleanup(@, [step |-> "rm", msg |-> o.msg]) ELSE @]
    /\ session' = [session EXCEPT ![p] = "disposed"]
    /\ outcome' = [outcome EXCEPT ![p] = Completion(KindOf(p), pending'[p])]
    /\ pc' = [pc EXCEPT ![p] = "done"]
    /\ Tick
    /\ UNCHANGED <<timers, localData, remoteData, scriptData, buffer, size>>
    /\ UNCHANGED <<appConfig, input, finalUsername, tempFilePath, tempFile, localFiles,
                   emitted, signals>>

\* ------------------------------------------------------------- Upload File, Download File
\* Upload: await fs.writeFile(tempFilePath, fileContent).  A failed write may
\* leave a partial file behind.
WriteFile(p) ==
    /\ pc[p] = "writeFile"
    /\ Dispatch(p, "fs.writeFile")
    /\ \E ok \in BOOLEAN, left \in BOOLEAN :
          /\ ok => left
          /\ localFiles' = IF left THEN localFiles \cup {tempFilePath[p]} ELSE localFiles
          /\ localData' = [localData EXCEPT ![p] =
                 IF ok THEN FileContent(input[p].content, Encoding(p)) ELSE @]
          /\ IF ok
             THEN pc' = [pc EXCEPT ![p] = "putFile"] /\ UNCHANGED pending
             ELSE Throw(p, "writeFile", "ENOSPC")
    /\ Tick
    /\ UNCHANGED <<timers, remoteData, scriptData, buffer, size>>
    /\ UNCHANGED <<appConfig, input, session, finalUsername, tempFilePath, tempFile,
                   remoteFiles, res, emitted, outcome, signals, warnings>>

\* Mutant: the permission change is made whether or not permissions is given.
WantsChmodAlways(permissions) == TRUE

\* if (permissions)
WantsChmod(permissions) == permissions # ""

\* Upload: await ssh.putFile(tempFilePath, destinationPath).
PutFile(p) ==
    /\ pc[p] = "putFile"
    /\ Dispatch(p, "putFile")
    /\ \E ok \in BOOLEAN :
          IF ok
          THEN /\ remoteData' = [remoteData EXCEPT ![input[p].path] =
                      [exists |-> TRUE, bytes |-> localData[p]]]
               /\ pc' = [pc EXCEPT ![p] =
                      IF WantsChmod(input[p].permissions) THEN "chmodUpload" ELSE "stat"]
               /\ UNCHANGED pending
          ELSE Throw(p, "putFile", "SFTP failure") /\ UNCHANGED remoteData
    /\ Tick
    /\ UNCHANGED <<timers, localData, scriptData, buffer, size>>
    /\ UNCHANGED <<appConfig, input, session, finalUsername, tempFilePath, tempFile,
                   localFiles, remoteFiles, res, emitted, outcome, signals, warnings>>

\* Upload: await ssh.execCommand(`chmod ${permissions} "${destinationPath}"`);
\* the exit code is not read.
ChmodUpload(p) ==
    /\ pc[p] = "chmodUpload"
    /\ Dispatch(p, "exec:chmod")
    /\ \E o \in SshExec(session[p], PlainResults) :
          IF o.thrown
          THEN Throw(p, "chmod", o.msg) /\ UNCHANGED res
          ELSE /\ res' = [res EXCEPT ![p]["chmod"] = o.r]
               /\ pc' = [pc EXCEPT ![p] = "stat"]
               /\ UNCHANGED pending
    /\ Tick
    /\ UNCHANGED <<timers, localData, remoteData, scriptData, buffer, size>>
    /\ UNCHANGED <<appConfig, input, session, finalUsername, tempFilePath, tempFile,
                   localFiles, remoteFiles, emitted, outcome, signals, warnings>>

\* Download: await ssh.getFile(tempFilePath, sourcePath).  A failed transfer may
\* leave a partial local file behind.
GetFile(p) ==
    /\ pc[p] = "getFile"
    /\ Dispatch(p, "getFile")
    /\ \E ok \in (IF remoteData[input[p].path].exists THEN BOOLEAN ELSE {FALSE}),
          left \in BOOLEAN :
          /\ ok => left
          /\ localFiles' = IF left THEN localFiles \cup {tempFilePath[p]} ELSE localFiles
          /\ localData' = [localData EXCEPT ![p] =
                 IF ok THEN remoteData[input[p].path].bytes ELSE @]
          /\ IF ok
             THEN pc' = [pc EXCEPT ![p] = "readFile"] /\ UNCHANGED pending
             ELSE Throw(p, "getFile", "No such file")
    /\ Tick
    /\ UNCHANGED <<timers, remoteData, scriptData, buffer, size>>
    /\ UNCHANGED <<appConfig, input, session, finalUsername, tempFilePath, tempFile,
                   remoteFiles, res, emitted, outcome, signals, warnings>>

\* Download: const buffer = await fs.readFile(tempFilePath).
ReadFile(p) ==
    /\ pc[p] = "readFile"
    /\ Dispatch(p, "fs.readFile")
    /\ \E ok \in BOOLEAN :
          IF ok
          THEN /\ buffer' = [buffer EXCEPT ![p] = localData[p]]
               /\ pc' = [pc EXCEPT ![p] = "stat"]
               /\ UNCHANGED pending
          ELSE Throw(p, "readFile", "EACCES") /\ UNCHANGED buffer
    /\ Tick
    /\ UNCHANGED <<timers, localData, remoteData, scriptData, size>>
    /\ UNCHANGED <<appConfig, input, session, finalUsername, tempFilePath, tempFile,
                   localFiles, remoteFiles, res, emitted, outcome, signals, warnings>>

\* Upload and Download: const stats = await fs.stat(tempFilePath).
StatLocal(p) ==
    /\ pc[p] = "stat"
    /\ Dispatch(p, "fs.stat")
    /\ \E ok \in BOOLEAN :
          IF ok
          THEN /\ size' = [size EXCEPT ![p] = Len(localData[p])]
               /\ pc' = [pc EXCEPT ![p] =
                      IF KindOf(p) = "uploadFile" THEN "emit" ELSE "remoteStat"]
               /\ UNCHANGED pending
          ELSE Throw(p, "stat", "ENOENT") /\ UNCHANGED size
    /\ Tick
    /\ UNCHANGED <<timers, localData, remoteData, scriptData, buffer>>
    /\ UNCHANGED <<appConfig, input, session, finalUsername, tempFilePath, tempFile,
                   localFiles, remoteFiles, res, emitted, outcome, signals, warnings>>


\* ------------------------------------------------------------- Download File: remote stat
\* Download: const statResult = await ssh.execCommand(`stat -c "%a %Y" "${sourcePath}"`)
\* and the parsing of its output.
RemoteStat(p) ==
    /\ pc[p] = "remoteStat"
    /\ Dispatch(p, "exec:stat")
    /\ \E o \in SshExec(session[p], StatResults) :
          IF o.thrown
          THEN Throw(p, "remoteStat", o.msg) /\ UNCHANGED res
          ELSE /\ res' = [res EXCEPT ![p]["stat"] = o.r]
               /\ IF ModifiedTimeThrows(o.r.stdout)
                  THEN Throw(p, "toISOString", "Invalid time value")
                  ELSE pc' = [pc EXCEPT ![p] = "emit"] /\ UNCHANGED pending
    /\ Tick
    /\ UNCHANGED <<timers, localData, remoteData, scriptData, buffer, size>>
    /\ UNCHANGED <<appConfig, input, session, finalUsername, tempFilePath, tempFile,
                   localFiles, remoteFiles, emitted, outcome, signals, warnings>>

\* Mutant: the local file is never deleted.
HasTempFilePathNever(path) == FALSE

\* if (tempFilePath)
HasTempFilePath(path) == path # Null

\* finally { ssh.dispose(); if (tempFilePath) { ... } } of Upload and Download:
\* the session is disposed first, the unlink is awaited after it.
TransferFinally(p) ==
    /\ pc[p] = "finally"
    /\ KindOf(p) \in TransferKinds
    /\ Dispatch(p, "dispose")
    /\ session' = [session EXCEPT ![p] = "disposed"]
    /\ IF HasTempFilePath(tempFilePath[p])
       THEN pc' = [pc EXCEPT ![p] = "unlink"] /\ UNCHANGED outcome
       ELSE /\ pc' = [pc EXCEPT ![p] = "done"]
            /\ outcome' = [outcome EXCEPT ![p] = Completion(KindOf(p), pending[p])]
    /\ UNCHANGED <<clock, timers, localData, remoteData, scriptData, buffer, size>>
    /\ UNCHANGED <<appConfig, input, finalUsername, tempFilePath, tempFile, localFiles,
                   remoteFiles, res, pending, emitted, signals, warnings>>

\* try { await fs.unlink(tempFilePath); } catch (e) { /* ignore */ }
\* unlink rejects when the file is not there, and may reject when it is.
Unlink(p) ==
    /\ pc[p] = "unlink"
    /\ Dispatch(p, "fs.unlink")
    /\ \E ok \in (IF tempFilePath[p] \in localFiles THEN BOOLEAN ELSE {FALSE}) :
          /\ localFiles' = IF ok THEN localFiles \ {tempFilePath[p]} ELSE localFiles
          /\ res' = [res EXCEPT ![p]["unlink"] = IF ok THEN Resolved ELSE NotRun]
          /\ pending' = [pending EXCEPT ![p] =
                 IF ok THEN @ ELSE AfterCleanup(@, [step |-> "unlink", msg |-> "EPERM"])]
    /\ outcome' = [outcome EXCEPT ![p] = Completion(KindOf(p), pending'[p])]
    /\ pc' = [pc EXCEPT ![p] = "done"]
    /\ Tick
    /\ UNCHANGED <<timers, localData, remoteData, scriptData, buffer, size>>
    /\ UNCHANGED <<appConfig, input, session, finalUsername, tempFilePath, tempFile,
                   remoteFiles, emitted, signals, warnings>>


\* ------------------------------------------------------------- Host Metadata
PlainProbes == <<"hostname", "osType", "osRelease", "architecture", "uptime">>
NextProbe(step) ==
    CASE step = "hostname" -> "osType"
      [] step = "osType" -> "osRelease"
      [] step = "osRelease" -> "architecture"
      [] step = "architecture" -> "uptime"
      [] step = "uptime" -> "loadAverage"

\* Output of cat /proc/uptime || uptime, by its format: "S.SS ..." of
\* /proc/uptime, "... up D days, H:M, ..." of uptime, or nothing.
UptimeStdouts ==
    {[fmt |-> "proc", secs |-> 5, days |-> 0, hours |-> 0, minutes |-> 0],
     [fmt |-> "uptime", secs |-> 0, days |-> 1, hours |-> 2, minutes |-> 3]}

\* What each probe command can resolve with.
ProbeResults(step) ==
    CASE step = "uptime" ->
            {[code |-> 0, stdout |-> o, stderr |-> <<>>] : o \in UptimeStdouts}
            \cup {[code |-> 1, stdout |-> <<>>, stderr |-> <<"e">>]}
      [] step = "loadAverage" ->
            {[code |-> 0, stdout |-> <<"1", " ", "2", " ", "3", " ", "x", "\n">>, stderr |-> <<>>],
             [code |-> 0, stdout |-> <<"1", ",", " ", "2">>, stderr |-> <<>>],
             [code |-> 0, stdout |-> <<>>, stderr |-> <<>>],
             [code |-> 1, stdout |-> <<>>, stderr |-> <<"e">>]}
      [] step = "memory" ->
            {[code |-> 0, stdout |-> <<[key |-> "MemTotal", kB |-> 4], [key |-> "MemFree", kB |-> 1],
                                       [key |-> "MemAvailable", kB |-> 2]>>, stderr |-> <<>>],
             [code |-> 0, stdout |-> <<[key |-> "MemTotal", kB |-> 4], [key |-> "MemFree", kB |-> 1]>>,
              stderr |-> <<>>],
             [code |-> 0, stdout |-> <<[key |-> "Pages free", kB |-> 9]>>, stderr |-> <<>>],
             [code |-> 1, stdout |-> <<>>, stderr |-> <<"e">>]}
      [] OTHER ->
            {[code |-> 0, stdout |-> <<" ", "W", "\n">>, stderr |-> <<>>],
             [code |-> 1, stdout |-> <<>>, stderr |-> <<"e">>]}

\* hostname.code === 0 ? hostname.stdout.trim() : ""
TextSignal(r) == IF r.code = 0 THEN Trim(r.stdout) ELSE <<>>
\* osType.code === 0 ? osType.stdout.trim().toLowerCase() : ""
OsTypeSignal(r) == IF r.code = 0 THEN ToLowerCase(Trim(r.stdout)) ELSE <<>>

\* let uptimeSeconds = 0; the /proc/uptime number, else days, hours and minutes
\* of the uptime text, when the command exited 0 with output
UptimeSeconds(r) ==
    IF r.code = 0 /\ r.stdout # <<>>
    THEN IF r.stdout.fmt = "proc" THEN r.stdout.secs
         ELSE r.stdout.days * 86400 + r.stdout.hours * 3600 + r.stdout.minutes * 60
    ELSE 0

\* Mutant: values that are missing from the output are taken to be 0, those that
\* are there are reported.
LoadAveragePadded(r) ==
    IF r.code = 0 /\ r.stdout # <<>>
    THEN LET parts == Split(Trim(r.stdout), {",", " "}, TRUE)
             at(i) == IF i <= Len(parts) THEN OrZero(ParseNumber(parts[i])) ELSE 0
         IN [m1 |-> at(1), m5 |-> at(2), m15 |-> at(3)]
    ELSE [m1 |-> 0, m5 |-> 0, m15 |-> 0]

ZeroLoad == [m1 |-> 0, m5 |-> 0, m15 |-> 0]
\* let loadAverage = {0, 0, 0}; replaced when the command exited 0 with output
\* that splits into at least three values
LoadAverage(r) ==
    IF r.code = 0 /\ r.stdout # <<>>
    THEN LET parts == Split(Trim(r.stdout), {",", " "}, TRUE)
             loads == [i \in 1..Len(parts) |-> ParseNumber(parts[i])]
         IN IF Len(loads) >= 3
            THEN [m1 |-> OrZero(loads[1]), m5 |-> OrZero(loads[2]), m15 |-> OrZero(loads[3])]
            ELSE ZeroLoad
    ELSE ZeroLoad

\* stdout.match(/Key:\s+(\d+)\s+kB/): the lines of the output that carry the key
MemMatch(stdout, key) == {i \in 1..Len(stdout) : stdout[i].key = key}
MemValue(stdout, key) == stdout[CHOOSE i \in MemMatch(stdout, key) :
                                   \A j \in MemMatch(stdout, key) : i <= j].kB * 1024
\* let memoryTotal = 0
MemoryTotal(r) ==
    IF r.code = 0 /\ r.stdout # <<>> /\ MemMatch(r.stdout, "MemTotal") # {}
    THEN MemValue(r.stdout, "MemTotal") ELSE 0
\* let memoryFree = 0: MemAvailable before MemFree
MemoryFree(r) ==
    IF r.code = 0 /\ r.stdout # <<>>
    THEN IF MemMatch(r.stdout, "MemAvailable") # {} THEN MemValue(r.stdout, "MemAvailable")
         ELSE IF MemMatch(r.stdout, "MemFree") # {} THEN MemValue(r.stdout, "MemFree")
         ELSE 0
    ELSE 0

\* return { signalUpdates: {...}, newStatus: "ready" }
SignalUpdates(r) ==
    [hostname |-> TextSignal(r["hostname"]),
     osType |-> OsTypeSignal(r["osType"]),
     osRelease |-> TextSignal(r["osRelease"]),
     architecture |-> TextSignal(r["architecture"]),
     uptime |-> UptimeSeconds(r["uptime"]),
     loadAverage |-> LoadAverage(r["loadAverage"]),
     memoryTotal |-> MemoryTotal(r["memory"]),
     memoryFree |-> MemoryFree(r["memory"])]

\* const hostname = await ssh.execCommand("hostname"); ... osType, osRelease,
\* architecture, uptime: awaited in the try block of onSync, outside any inner try.
Probe(p) ==
    /\ pc[p] \in {PlainProbes[i] : i \in 1..Len(PlainProbes)}
    /\ Dispatch(p, pc[p])
    /\ \E o \in SshExec(session[p], ProbeResults(pc[p])) :
          IF o.thrown
          THEN Throw(p, pc[p], o.msg) /\ UNCHANGED res
          ELSE /\ res' = [res EXCEPT ![p][pc[p]] = o.r]
               /\ pc' = [pc EXCEPT ![p] = NextProbe(pc[p])]
               /\ UNCHANGED pending
    /\ Tick
    /\ UNCHANGED <<timers, localData, remoteData, scriptData, buffer, size>>
    /\ UNCHANGED <<appConfig, input, session, finalUsername, tempFilePath, tempFile,
                   localFiles, remoteFiles, emitted, outcome, signals, warnings>>

\* try { const loadResult = await ssh.execCommand(...) ... } catch (e) { console.warn }
LoadProbe(p) ==
    /\ pc[p] = "loadAverage"
    /\ Dispatch(p, "loadAverage")
    /\ \E o \in SshExec(session[p], ProbeResults("loadAverage")) :
          /\ res' = [res EXCEPT ![p]["loadAverage"] = o.r]
          /\ warnings' = [warnings EXCEPT ![p] =
                 IF o.thrown THEN Append(@, <<"Failed to get load average:", o.msg>>) ELSE @]
    /\ pc' = [pc EXCEPT ![p] = "memory"]
    /\ Tick
    /\ UNCHANGED <<timers, localData, remoteData, scriptData, buffer, size>>
    /\ UNCHANGED <<appConfig, input, session, finalUsername, tempFilePath, tempFile,
                   localFiles, remoteFiles, pending, emitted, outcome, signals>>

\* try { const memResult = await ssh.execCommand(...) ... } catch (e) { console.warn },
\* then the parsing of the uptime output and the return of the signals.
MemoryProbe(p) ==
    /\ pc[p] = "memory"
    /\ Dispatch(p, "memory")
    /\ \E o \in SshExec(session[p], ProbeResults("memory")) :
          /\ res' = [res EXCEPT ![p]["memory"] = o.r]
          /\ warnings' = [warnings EXCEPT ![p] =
                 IF o.thrown THEN Append(@, <<"Failed to get memory info:", o.msg>>) ELSE @]
    /\ signals' = [signals EXCEPT ![p] = SignalUpdates(res'[p])]
    /\ pc' = [pc EXCEPT ![p] = "finally"]
    /\ Tick
    /\ UNCHANGED <<timers, localData, remoteData, scriptData, buffer, size>>
    /\ UNCHANGED <<appConfig, input, session, finalUsername, tempFilePath, tempFile,
                   localFiles, remoteFiles, pending, emitted, outcome>>

\* ------------------------------------------------------------- specification
Step(p) ==
    \/ Begin(p)
    \/ Connect(p)
    \/ ExecCommand(p)
    \/ CreateScript(p)
    \/ ChmodScript(p)
    \/ ExecScript(p)
    \/ WriteFile(p)
    \/ PutFile(p)
    \/ ChmodUpload(p)
    \/ GetFile(p)
    \/ ReadFile(p)
    \/ StatLocal(p)
    \/ RemoteStat(p)
    \/ Probe(p)
    \/ LoadProbe(p)
    \/ MemoryProbe(p)
    \/ Emit(p)
    \/ Finally(p)
    \/ ScriptFinally(p)
    \/ TransferFinally(p)
    \/ Unlink(p)

Next == \E p \in Procs : Step(p)

Spec == Init /\ [][Next]_vars


\* ------------------------------------------------------------- upload, then download
\* What the round trip is tried with: texts (empty, ASCII, two-byte and
\* four-byte characters, U+FFFD, an unpaired surrogate) and base64 payloads
\* (padded, unpadded, with white space, of bytes that are no UTF-8, empty).
RoundTripPayloads ==
    {[encoding |-> "text", content |-> c] :
        c \in {<<>>, <<"a">>, <<"eacute", " ", "a">>, <<"HS", "LS">>, <<"FFFD">>,
               <<"a", "HS">>}}
    \cup
    {[encoding |-> "base64", content |-> c] :
        c \in {<<>>, <<"w", "6", "k", "=">>, <<"/", "w", "=", "=">>, <<"/", "w">>,
               <<"T", "W", " ", "F", "u">>, <<"A", "P", "8", "Q">>}}

\* The caller invokes Download File once its Upload File has returned.
ThenDownload(p) ==
    /\ pc[p] = "queued"
    /\ \E q \in Procs : KindOf(q) = "uploadFile" /\ pc[q] = "done"
    /\ pc' = [pc EXCEPT ![p] = "begin"]
    /\ UNCHANGED <<appConfig, input, session, finalUsername, tempFilePath, tempFile,
                   localFiles, remoteFiles, res, pending, emitted, outcome, signals,
                   calls, warnings, clock, timers, localData, remoteData, scriptData,
                   buffer, size>>

\* Slot 1 uploads to a path, slot 2 downloads that path with the same encoding.
RoundTripInit ==
    /\ InitCommon
    /\ appConfig.privateKey = "PEM" /\ appConfig.username = "root"
    /\ DOMAIN appConfig.knownHosts = {}
    /\ remoteData = [f \in TransferPaths |-> NoFile]
    /\ \E pl \in RoundTripPayloads, pe \in {"", "0644"} :
          input = [p \in Procs |->
                     IF p = 1
                     THEN [kind |-> "uploadFile", host |-> "h1", username |-> "",
                           path |-> "/data/file", permissions |-> pe,
                           encoding |-> pl.encoding, content |-> pl.content,
                           script |-> <<>>]
                     ELSE IF p = 2
                     THEN [kind |-> "downloadFile", host |-> "h1", username |-> "",
                           path |-> "/data/file", permissions |-> "",
                           encoding |-> pl.encoding, content |-> <<>>, script |-> <<>>]
                     ELSE IdleInput]
    /\ pc = [p \in Procs |-> IF p = 1 THEN "begin" ELSE IF p = 2 THEN "queued" ELSE "idle"]

RoundTripStep(p) ==
    \/ Begin(p)
    \/ Connect(p)
    \/ WriteFile(p)
    \/ PutFile(p)
    \/ ChmodUpload(p)
    \/ GetFile(p)
    \/ ReadFile(p)
    \/ StatLocal(p)
    \/ RemoteStat(p)
    \/ Emit(p)
    \/ TransferFinally(p)
    \/ Unlink(p)
    \/ ThenDownload(p)

RoundTripNext == \E p \in Procs : RoundTripStep(p)

RoundTripSpec == RoundTripInit /\ [][RoundTripNext]_vars

\* ------------------------------------------------------------- concurrent invocations
\* What the concurrent invocations are given, by block.
ConcurrentInput(k) ==
    [kind |-> k, host |-> "h1", username |-> "",
     path |-> IF k \in TransferKinds THEN "/data/file" ELSE "",
     permissions |-> "",
     encoding |-> IF k \in TransferKinds THEN "text" ELSE "",
     content |-> IF k = "uploadFile" THEN <<"a">> ELSE <<>>,
     script |-> <<>>]
ConcurrentKinds == {"uploadFile", "downloadFile"}

\* Every slot holds an invocation that has been called and not yet begun; the
\* platform runs them interleaved at their awaits.
ConcurrentInit ==
    /\ InitCommon
    /\ appConfig.privateKey = "PEM" /\ appConfig.username = "root"
    /\ DOMAIN appConfig.knownHosts = {}
    /\ remoteData = [f \in TransferPaths |-> [exists |-> TRUE, bytes |-> <<195, 169>>]]
    /\ \E ks \in [Procs -> ConcurrentKinds] :
          input = [p \in Procs |-> ConcurrentInput(ks[p])]
    /\ pc = [p \in Procs |-> "begin"]

ConcurrentStep(p) ==
    \/ Begin(p)
    \/ Connect(p)
    \/ WriteFile(p)
    \/ PutFile(p)
    \/ GetFile(p)
    \/ ReadFile(p)
    \/ StatLocal(p)
    \/ RemoteStat(p)
    \/ Emit(p)
    \/ TransferFinally(p)
    \/ Unlink(p)

ConcurrentNext == \E p \in Procs : ConcurrentStep(p)

ConcurrentSpec == ConcurrentInit /\ [][ConcurrentNext]_vars

\* ------------------------------------------------------------- properties
Range(s) == {s[i] : i \in 1..Len(s)}
Called(p, name) == name \in Range(calls[p])
Done(p) == pc[p] = "done"
Failed(p) == outcome[p].status \in {"rejected", "failed"}
\* The remote and file-transfer calls a handler can dispatch on its session.
RemoteCalls == {"exec", "exec:createScript", "exec:chmod", "exec:rm", "exec:stat",
                "putFile", "getFile", "hostname", "osType", "osRelease",
                "architecture", "uptime", "loadAverage", "memory"}

\* C1: when an operation has finished and a session object was created for it,
\* the session has been disposed, whichever way the try block was left.
C1_SessionClosed ==
    \A p \in Procs :
        Done(p) /\ (session[p] # "none" \/ Called(p, "connect"))
            => session[p] = "disposed" /\ Called(p, "dispose")

\* C1 witness: Execute Script finished after result emission threw, session disposed.
C1_Witness ==
    \E p \in Procs :
        /\ Done(p) /\ KindOf(p) = "executeScript"
        /\ pending[p].step = "emit" /\ session[p] = "disposed"

\* C2: with no privateKey in the app config an invocation never dispatches a
\* connect or any other call and creates no session, and it ends as a failure
\* with the configuration message (thrown, or status failed in Host Metadata).
C2_NoKeyNoNetwork ==
    \A p \in Procs :
        pc[p] # "idle" /\ appConfig.privateKey = ""
            => /\ calls[p] = <<>> /\ session[p] = "none"
               /\ pc[p] \in {"begin", "done"}
               /\ Done(p) =>
                     /\ outcome[p].msg = MsgNoKey
                     /\ outcome[p].status =
                            IF KindOf(p) = "hostMetadata" THEN "failed" ELSE "rejected"

\* C2 witness: Host Metadata ended failed for want of a private key.
C2_Witness ==
    \E p \in Procs :
        /\ Done(p) /\ KindOf(p) = "hostMetadata" /\ appConfig.privateKey = ""
        /\ outcome[p].status = "failed" /\ calls[p] = <<>>

\* C3: with neither a per-call nor an app-level username an invocation never
\* dispatches a connect, creates no session, and ends as a failure.
C3_NoUsernameNoConnect ==
    \A p \in Procs :
        pc[p] # "idle" /\ input[p].username = "" /\ appConfig.username = ""
            => /\ ~Called(p, "connect") /\ calls[p] = <<>> /\ session[p] = "none"
               /\ pc[p] \in {"begin", "done"}
               /\ Done(p) => Failed(p)

\* C3 witness: an upload with a private key but no username ended rejected with
\* the username message.
C3_Witness ==
    \E p \in Procs :
        /\ Done(p) /\ KindOf(p) = "uploadFile" /\ appConfig.privateKey # ""
        /\ input[p].username = "" /\ appConfig.username = ""
        /\ outcome[p].status = "rejected" /\ outcome[p].msg = MsgNoUserInput

\* C4: when knownHosts has an entry for the target host and the server presents
\* another key, the connection attempt fails and no work is performed.
C4_HostKeyVerified ==
    \A p \in Procs :
        (/\ pc[p] # "idle"
         /\ input[p].host \in DOMAIN appConfig.knownHosts
         /\ appConfig.knownHosts[input[p].host] # ServerKey[input[p].host])
            => /\ session[p] # "connected"
               /\ Range(calls[p]) \cap RemoteCalls = {}


\* The command of Execute Command completed with a non-zero exit code.
ExitedNonZero(p) ==
    /\ KindOf(p) = "executeCommand"
    /\ res[p]["exec"] # NotRun /\ res[p]["exec"].code # 0

\* The one result Execute Command owes for the value its command resolved with.
CommandEvent(p) ==
    [stdout |-> res[p]["exec"].stdout, stderr |-> res[p]["exec"].stderr,
     exitCode |-> res[p]["exec"].code, duration |-> timers[p].duration]

\* C5 as stated: an Execute Command whose command completed with a non-zero exit
\* code n ends resolved with exactly one result carrying exitCode n, stdout and stderr.
C5_NonZeroExitIsSuccess ==
    \A p \in Procs :
        Done(p) /\ ExitedNonZero(p)
            => outcome[p].status = "resolved" /\ emitted[p] = <<CommandEvent(p)>>

\* C5 amended: such an invocation dispatches the emission of exactly that result
\* and ends resolved with it delivered, unless the emission itself throws; and
\* Execute Command ends rejected, past the configuration checks, only when the
\* connect, the command dispatch or the emission threw.
C5_NonZeroExitEmitted ==
    \A p \in Procs :
        /\ Done(p) /\ ExitedNonZero(p)
              => /\ Called(p, "emit")
                 /\ \/ outcome[p].status = "resolved" /\ emitted[p] = <<CommandEvent(p)>>
                    \/ /\ outcome[p].status = "rejected" /\ emitted[p] = <<>>
                       /\ pending[p].step = "emit"
        /\ Done(p) /\ KindOf(p) = "executeCommand" /\ outcome[p].status = "rejected"
              /\ session[p] # "none"
              => pending[p].step \in {"connect", "exec", "emit"}

\* C5 witness: exit code 7 with output on both streams, delivered and resolved.
C5_Witness ==
    \E p \in Procs :
        /\ Done(p) /\ ExitedNonZero(p) /\ outcome[p].status = "resolved"
        /\ Len(emitted[p]) = 1
        /\ emitted[p][1].stdout = <<"o">> /\ emitted[p][1].stderr = <<"e">>
        /\ emitted[p][1].exitCode = 7

\* The temporary artifact of an invocation: the local staging file of a
\* transfer, the remote script file of Execute Script.
LocalArtifactExists(p) == LocalPath(p) \in localFiles
RemoteArtifactExists(p) == ScriptPath(p) \in remoteFiles

\* C6 as stated: in every terminal state the artifact the operation created no
\* longer exists.
C6_NoArtifactPersists ==
    \A p \in Procs :
        Done(p) => ~LocalArtifactExists(p) /\ ~RemoteArtifactExists(p)

\* C6 amended: in every terminal state an artifact that still exists is one whose
\* removal was dispatched and did not succeed (the unlink rejected; rm -f rejected
\* or exited non-zero); after a removal that succeeded it is gone.
C6_ArtifactPersistsOnlyOnFailedCleanup ==
    \A p \in Procs :
        Done(p) =>
            /\ LocalArtifactExists(p) =>
                   Called(p, "fs.unlink") /\ res[p]["unlink"] # Resolved
            /\ RemoteArtifactExists(p) =>
                   Called(p, "exec:rm") /\ res[p]["rm"].code # 0

\* C6 witness: an upload failed in the remote transfer, after its staging file
\* was written, and the file is gone at the end.
C6_Witness ==
    \E p \in Procs :
        /\ Done(p) /\ KindOf(p) = "uploadFile" /\ pending[p].step = "putFile"
        /\ res[p]["unlink"] = Resolved /\ ~LocalArtifactExists(p)

\* C7: in Upload and Download, once the local temp path has been chosen, the
\* deletion of that file has been dispatched by the time the operation ends,
\* whatever step failed.
C7_LocalCleanupAttempted ==
    \A p \in Procs :
        Done(p) /\ KindOf(p) \in TransferKinds /\ tempFilePath[p] # Null
            => /\ Called(p, "fs.unlink")
               /\ calls[p][Len(calls[p])] = "fs.unlink"

\* C7 witness: a download whose remote stat threw ended with the unlink dispatched.
C7_Witness ==
    \E p \in Procs :
        /\ Done(p) /\ KindOf(p) = "downloadFile" /\ pending[p].step = "remoteStat"
        /\ Called(p, "fs.unlink")

\* The removal failed: it rejected or rm exited non-zero, and the file is still there.
RemovalFailed(p) ==
    Called(p, "exec:rm") /\ res[p]["rm"].code # 0 /\ RemoteArtifactExists(p)

\* C8: Execute Script always dispatches the removal once the session exists,
\* whatever the exit code and whichever step threw, and a failure of the
\* removal is logged and never propagated.
C8_RemovalFailureLogged ==
    \A p \in Procs :
        Done(p) /\ KindOf(p) = "executeScript" /\ session[p] # "none"
            => /\ Called(p, "exec:rm")
               /\ RemovalFailed(p) => warnings[p] # <<>>
               /\ pending[p].step # "rm"

\* A cleanup step: the unlink of a transfer, the removal in Execute Script.
AtCleanup(p) ==
    \/ pc[p] = "unlink"
    \/ pc[p] = "finally" /\ KindOf(p) = "executeScript"

\* C9: a cleanup step, however it ends, leaves the emitted result and the
\* completion of the try block as they were, and the outcome the caller gets
\* is the one that completion stands for: the same whether the cleanup failed.
C9_CleanupKeepsOutcome ==
    [][\A p \in Procs :
          AtCleanup(p) /\ pc'[p] = "done"
             => /\ emitted'[p] = emitted[p]
                /\ pending'[p] = pending[p]
                /\ outcome'[p].status =
                       (IF pending[p] = NoError THEN "resolved" ELSE "rejected")
                /\ outcome'[p].msg = pending[p].msg]_vars

\* C9 witness: an upload resolved with its result although the unlink failed
\* and the staging file is still there.
C9_Witness ==
    \E p \in Procs :
        /\ Done(p) /\ KindOf(p) = "uploadFile" /\ LocalArtifactExists(p)
        /\ res[p]["unlink"] = NotRun /\ outcome[p].status = "resolved"
        /\ Len(emitted[p]) = 1

\* C10: a Host Metadata sync whose session was established ends ready, whichever
\* probe failed and however it failed.
C10_ProbesFailIndependently ==
    \A p \in Procs :
        Done(p) /\ KindOf(p) = "hostMetadata" /\ session[p] # "none"
            /\ pending[p].step # "connect"
            => outcome[p].status = "ready" /\ signals[p] # Null

\* The load-average probe was dispatched and gave no usable answer: the call
\* rejected, the command exited non-zero, printed nothing, or printed fewer than
\* three values.
LoadUnsupported(p) ==
    /\ KindOf(p) = "hostMetadata" /\ Called(p, "loadAverage")
    /\ LET r == res[p]["loadAverage"]
       IN \/ r = NotRun
          \/ r.code # 0
          \/ r.stdout = <<>>
          \/ Len(Split(Trim(r.stdout), {",", " "}, TRUE)) < 3

\* C11: a Host Metadata sync whose load-average probe gave no usable answer
\* (rejected, exited non-zero, empty output, fewer than three values) goes on to
\* the memory probe and ends ready with loadAverage {0, 0, 0}; a rejected probe
\* is logged.
C11_LoadUnsupportedIsReady ==
    \A p \in Procs :
        LoadUnsupported(p) =>
            /\ pc[p] \in {"memory", "finally", "done"}
            /\ pending[p] = NoError
            /\ res[p]["loadAverage"] = NotRun => warnings[p] # <<>>
            /\ pc[p] \in {"finally", "done"} => signals[p].loadAverage = [m1 |-> 0, m5 |-> 0, m15 |-> 0]
            /\ Done(p) => outcome[p].status = "ready"

\* C11 witness: the probe printed two values only; the sync ended ready with
\* the zero load average.
C11_Witness ==
    \E p \in Procs :
        /\ Done(p) /\ LoadUnsupported(p)
        /\ res[p]["loadAverage"].stdout = <<"1", ",", " ", "2">>
        /\ outcome[p].status = "ready"
        /\ signals[p].loadAverage = [m1 |-> 0, m5 |-> 0, m15 |-> 0]

\* C12: a Download File whose caller supplied no encoding emits as content the
\* base64 encoding of the bytes of the file it fetched.
C12_DefaultEncodingIsBase64 ==
    \A p \in Procs :
        KindOf(p) = "downloadFile" /\ input[p].encoding = "" /\ emitted[p] # <<>>
            => emitted[p][1].content = Base64Encode(remoteData[input[p].path].bytes)

\* An upload returned a result, and a download of the same path with the same
\* encoding, invoked after it, returned one too.
RoundTrip(p, q) ==
    /\ KindOf(p) = "uploadFile" /\ Done(p) /\ outcome[p].status = "resolved"
    /\ KindOf(q) = "downloadFile" /\ Done(q) /\ outcome[q].status = "resolved"
    /\ input[q].path = input[p].path /\ input[q].encoding = input[p].encoding
    /\ Len(emitted[q]) = 1

\* No unpaired surrogate among the code units of the string.
RECURSIVE WellFormed(_)
WellFormed(str) ==
    IF str = <<>> THEN TRUE
    ELSE IF Head(str) = "HS"
         THEN Len(str) >= 2 /\ str[2] = "LS" /\ WellFormed(Tail(Tail(str)))
    ELSE Head(str) # "LS" /\ WellFormed(Tail(str))

\* C13 as stated: after an upload and a download of the same path, with 'text'
\* the content returned equals the content uploaded, whatever it is; with
\* 'base64' the payload returned decodes to the bytes the payload uploaded
\* decodes to.
C13_RoundTrip ==
    \A p, q \in Procs :
        RoundTrip(p, q) =>
            IF input[p].encoding = "text"
            THEN emitted[q][1].content = input[p].content
            ELSE Base64Decode(emitted[q][1].content) = Base64Decode(input[p].content)

\* C13 amended: the text round trip returns the content uploaded when that
\* content is well-formed Unicode (it has no unpaired surrogate); the base64
\* round trip returns a payload that decodes to the same bytes, for every payload.
C13_RoundTripWellFormed ==
    \A p, q \in Procs :
        RoundTrip(p, q) =>
            IF input[p].encoding = "text"
            THEN WellFormed(input[p].content) => emitted[q][1].content = input[p].content
            ELSE Base64Decode(emitted[q][1].content) = Base64Decode(input[p].content)

\* C13 witness: an unpadded base64 payload of the byte FF went up and came back
\* padded.
C13_Witness ==
    \E p, q \in Procs :
        /\ RoundTrip(p, q)
        /\ input[p].content = <<"/", "w">>
        /\ remoteData[input[p].path].bytes = <<255>>
        /\ emitted[q][1].content = <<"/", "w", "=", "=">>

\* C14: once the staging command of Execute Script has exited 0 and the
\* interpreter has been dispatched, the remote script file holds the lines of
\* the script body supplied, whatever lines those are.
C14_ScriptStagedVerbatim ==
    \A p \in Procs :
        /\ KindOf(p) = "executeScript" /\ Called(p, "exec")
        /\ res[p]["createScript"].code = 0
        => scriptData[p] = input[p].script

\* C15: once the connection attempt of an invocation has failed, no remote
\* command and no file transfer is dispatched on its session, no result is
\* emitted, and the invocation ends as a failure that carries the message of
\* the transport (rejected; failed, in Host Metadata).
C15_ConnectFailureAborts ==
    \A p \in Procs :
        pending[p].step = "connect" =>
            /\ Range(calls[p]) \cap RemoteCalls = {}
            /\ emitted[p] = <<>> /\ signals[p] = Null
            /\ Done(p) =>
                  /\ outcome[p].msg \in ConnectErrors
                  /\ outcome[p].status =
                         IF KindOf(p) = "hostMetadata" THEN "failed" ELSE "rejected"

\* The calls a handler has dispatched when every work step of it went through,
\* up to and with the emission of the result (the last probe, in Host Metadata).
WorkCalls(p) ==
    CASE KindOf(p) = "executeCommand" -> <<"connect", "exec", "emit">>
      [] KindOf(p) = "executeScript" ->
            <<"connect", "exec:createScript", "exec:chmod", "exec", "emit">>
      [] KindOf(p) = "uploadFile" ->
            IF input[p].permissions # ""
            THEN <<"connect", "fs.writeFile", "putFile", "exec:chmod", "fs.stat", "emit">>
            ELSE <<"connect", "fs.writeFile", "putFile", "fs.stat", "emit">>
      [] KindOf(p) = "downloadFile" ->
            <<"connect", "getFile", "fs.readFile", "fs.stat", "exec:stat", "emit">>
      [] OTHER ->
            <<"connect", "hostname", "osType", "osRelease", "architecture", "uptime",
              "loadAverage", "memory">>

\* C16: an event handler emits at most one result, and only after all its work
\* steps were dispatched in order and none threw; an invocation that ends
\* rejected has emitted nothing; a Host Metadata sync that ends failed carries
\* no signal updates.
C16_NoPartialResult ==
    \A p \in Procs :
        /\ Len(emitted[p]) <= 1
        /\ emitted[p] # <<>> =>
              /\ KindOf(p) \in EventKinds
              /\ pending[p] = NoError
              /\ Len(calls[p]) >= Len(WorkCalls(p))
              /\ SubSeq(calls[p], 1, Len(WorkCalls(p))) = WorkCalls(p)
        /\ Done(p) /\ outcome[p].status = "rejected" => emitted[p] = <<>>
        /\ Done(p) /\ outcome[p].status = "failed" => signals[p] = Null
        /\ signals[p] # Null => KindOf(p) = "hostMetadata" /\ pending[p] = NoError

\* C16 witness: a download fetched and read the file, then failed on the
\* modification time, and ended rejected with nothing emitted.
C16_Witness ==
    \E p \in Procs :
        /\ Done(p) /\ KindOf(p) = "downloadFile" /\ pending[p].step = "toISOString"
        /\ buffer[p] # <<>> /\ size[p] > 0
        /\ outcome[p].status = "rejected" /\ emitted[p] = <<>>

\* C17: the duration Execute Script reports is the time the interpreter command
\* took: its start timestamp is taken after the connection, the staging write
\* and the chmod have completed, when the interpreter command is dispatched.
C17_ScriptDurationIsInterpreterTime ==
    \A p \in Procs :
        KindOf(p) = "executeScript" /\ timers[p].duration # -1 =>
            /\ timers[p].startTime >= timers[p].connected
            /\ timers[p].startTime = timers[p].dispatched
            /\ timers[p].duration = timers[p].returned - timers[p].dispatched

\* C18: the duration Execute Command reports is the time from the dispatch of
\* the command to its return: its start timestamp is taken after the session is
\* connected, when the command is dispatched, and the end timestamp when the
\* command has returned, before the result is emitted.
C18_CommandDurationIsCommandTime ==
    \A p \in Procs :
        KindOf(p) = "executeCommand" /\ timers[p].duration # -1 =>
            /\ timers[p].connected <= timers[p].startTime
            /\ timers[p].startTime = timers[p].dispatched
            /\ timers[p].duration = timers[p].returned - timers[p].startTime
            /\ emitted[p] # <<>> =>
                   emitted[p][1].duration = timers[p].returned - timers[p].dispatched

\* The calls of the cleanup in the finally blocks.
CleanupCalls == {"exec:rm", "dispose", "fs.unlink"}
IsWorkCall(name) == name \notin CleanupCalls
IsPrefix(s, t) == Len(s) <= Len(t) /\ s = SubSeq(t, 1, Len(s))

\* C19: the connect and the work steps an invocation has dispatched are an
\* initial part of the steps of its operation, each dispatched once and in
\* order, so nothing is attempted a second time; once a call has failed no
\* further work step follows it, each cleanup call is made at most once, and the
\* caller is given that one failure.
C19_NoRetries ==
    \A p \in Procs :
        /\ IsPrefix(SelectSeq(calls[p], IsWorkCall), WorkCalls(p))
        /\ \A c \in CleanupCalls :
              Cardinality({i \in 1..Len(calls[p]) : calls[p][i] = c}) <= 1
        /\ Cardinality({i \in 1..Len(calls[p]) : calls[p][i] = "connect"}) <= 1
        /\ pending[p].step = "connect" => SelectSeq(calls[p], IsWorkCall) = <<"connect">>
        /\ Done(p) /\ pending[p] # NoError =>
              Failed(p) /\ outcome[p].msg = pending[p].msg

\* C19 witness: an Execute Command whose connection failed ended rejected after
\* one connect and the disposal of the session.
C19_Witness ==
    \E p \in Procs :
        /\ Done(p) /\ KindOf(p) = "executeCommand" /\ pending[p].step = "connect"
        /\ calls[p] = <<"connect", "dispose">> /\ outcome[p].status = "rejected"

\* C20: in all five operations the username handed to ssh.connect is the
\* per-call username when that is non-empty and the app-level default
\* otherwise, and it is resolved (and non-empty) before the connect is dispatched.
C20_UsernamePrecedence ==
    \A p \in Procs :
        pc[p] = "connect" \/ Called(p, "connect") =>
            /\ ConnectConfig(p).username =
                   (IF input[p].username # "" THEN input[p].username
                    ELSE appConfig.username)
            /\ ConnectConfig(p).username # ""

\* C20 witness: a Host Metadata sync with both usernames configured connected as
\* the per-call user; the app-level default is another name.
C20_Witness ==
    \E p \in Procs :
        /\ KindOf(p) = "hostMetadata" /\ session[p] = "connected"
        /\ input[p].username = "alice" /\ appConfig.username = "root"
        /\ ConnectConfig(p).username = "alice"

\* Where in the calls of p the call name stands (it was dispatched).
Pos(p, name) == CHOOSE i \in 1..Len(calls[p]) : calls[p][i] = name

\* C21: in Upload File the permission change is dispatched only when
\* permissions is given, and then after the transfer; once the local size is
\* read it has been dispatched exactly when permissions is given; in the result
\* it precedes the emission, size is the number of bytes the content decodes to
\* (the bytes transferred), and path is destinationPath.
C21_UploadStepOrder ==
    \A p \in Procs :
        KindOf(p) = "uploadFile" =>
            /\ Called(p, "exec:chmod") =>
                  /\ input[p].permissions # ""
                  /\ Called(p, "putFile") /\ Pos(p, "putFile") < Pos(p, "exec:chmod")
                  /\ remoteData[input[p].path].exists
            /\ Called(p, "fs.stat") =>
                  (Called(p, "exec:chmod") <=> input[p].permissions # "")
            /\ Called(p, "emit") /\ Called(p, "exec:chmod") =>
                  Pos(p, "exec:chmod") < Pos(p, "emit")
            /\ emitted[p] # <<>> =>
                  /\ emitted[p][1].path = input[p].path
                  /\ emitted[p][1].size =
                         Len(IF input[p].encoding = "base64"
                             THEN Base64Decode(input[p].content)
                             ELSE Utf8Encode(input[p].content))
                  /\ emitted[p][1].size = Len(remoteData[input[p].path].bytes)

\* C21 witness: an upload of the base64 payload of two bytes with permissions
\* 0644 resolved: transfer, chmod, emission in that order, size 2.
C21_Witness ==
    \E p \in Procs :
        /\ Done(p) /\ KindOf(p) = "uploadFile" /\ outcome[p].status = "resolved"
        /\ input[p].permissions = "0644" /\ input[p].encoding = "base64"
        /\ Pos(p, "putFile") < Pos(p, "exec:chmod")
        /\ Pos(p, "exec:chmod") < Pos(p, "emit")
        /\ emitted[p][1].size = 2 /\ emitted[p][1].path = "/data/file"

\* The invocation that takes the step.
Stepper(p) == pc'[p] # pc[p]

\* What an invocation holds of its own: its session, its locals, its results.
Own(p) ==
    <<pc[p], session[p], finalUsername[p], tempFilePath[p], tempFile[p], res[p],
      pending[p], emitted[p], outcome[p], signals[p], calls[p], warnings[p],
      timers[p], localData[p], scriptData[p], buffer[p], size[p]>>

\* The invocation is between the step that created its staging file and its
\* last use of it.
UsesStagingFile(p) ==
    \/ KindOf(p) = "uploadFile" /\ pc[p] \in {"putFile", "chmodUpload", "stat", "emit"}
    \/ KindOf(p) = "downloadFile" /\ pc[p] \in {"readFile", "stat", "remoteStat", "emit"}

C23_NoUseAfterClose ==
    \A p \in Procs :
        /\ Called(p, "dispose") =>
              \A i \in 1..Len(calls[p]) :
                  i > Pos(p, "dispose") => calls[p][i] = "fs.unlink"
        /\ session[p] = "disposed" => Called(p, "dispose") /\ pc[p] \in {"unlink", "done"}
        /\ KindOf(p) = "executeScript" /\ Called(p, "dispose") =>
              Called(p, "exec:rm") /\ Pos(p, "exec:rm") < Pos(p, "dispose")

\* C23 witness: an Execute Script whose chmod step threw has ended: removal
\* first, disposal last.
C23_Witness ==
    \E p \in Procs :
        /\ Done(p) /\ KindOf(p) = "executeScript" /\ pending[p].step = "chmod"
        /\ Pos(p, "exec:rm") + 1 = Pos(p, "dispose")
        /\ Pos(p, "dispose") = Len(calls[p])

\* Both staging commands of Execute Script resolved, whatever their exit codes.
Staged(p) == res[p]["createScript"] # NotRun /\ res[p]["chmod"] # NotRun

\* C24: in Execute Script, once the staging write and the chmod have resolved,
\* with whatever exit codes, the interpreter is the next call and is
\* dispatched; it is dispatched only then, so among the staging steps only one
\* that throws keeps it from being invoked; and the result emitted carries the
\* stdout, stderr and exit code the interpreter command resolved with.
C24_StagingExitCodesIgnored ==
    \A p \in Procs :
        KindOf(p) = "executeScript" =>
            /\ Staged(p) => pc[p] = "execScript" \/ Called(p, "exec")
            /\ Called(p, "exec") => Staged(p)
            /\ Done(p) /\ session[p] # "none" /\ ~Called(p, "exec") =>
                  pending[p].step \in {"connect", "createScript", "chmod"}
            /\ emitted[p] # <<>> =>
                  /\ emitted[p][1].stdout = res[p]["exec"].stdout
                  /\ emitted[p][1].stderr = res[p]["exec"].stderr
                  /\ emitted[p][1].exitCode = res[p]["exec"].code

\* C24 witness: staging write and chmod both exited 1, the interpreter ran and
\* exited 7, and that is the result emitted.
C24_Witness ==
    \E p \in Procs :
        /\ Done(p) /\ KindOf(p) = "executeScript" /\ outcome[p].status = "resolved"
        /\ res[p]["createScript"].code = 1 /\ res[p]["chmod"].code = 1
        /\ Len(emitted[p]) = 1 /\ emitted[p][1].exitCode = 7
        /\ emitted[p][1].stdout = <<"o">>

\* The output of the remote stat has, after its first space, a text that
\* starts with a digit: a modification timestamp can be parsed from it.
TimestampParseable(stdout) ==
    LET t == Trim(stdout)
    IN \E i \in 1..Len(t) :
          /\ t[i] = " " /\ \A j \in 1..(i - 1) : t[j] # " "
          /\ i < Len(t) /\ t[i + 1] \in Digits

\* C25: Download File emits a result only after the transfer, the local read
\* and a remote stat whose output holds a parseable modification timestamp;
\* when the stat resolves with other output (empty, as after a non-zero exit,
\* or unparseable) the emission is never dispatched and the invocation ends
\* rejected, with the content already read, the session disposed and the
\* unlink of the staging file dispatched.
C25_DownloadNeedsTimestamp ==
    \A p \in Procs :
        KindOf(p) = "downloadFile" =>
            /\ Called(p, "emit") =>
                  /\ Called(p, "getFile") /\ Called(p, "fs.readFile")
                  /\ res[p]["stat"] # NotRun
                  /\ TimestampParseable(res[p]["stat"].stdout)
            /\ res[p]["stat"] # NotRun /\ ~TimestampParseable(res[p]["stat"].stdout) =>
                  /\ ~Called(p, "emit") /\ emitted[p] = <<>>
                  /\ pending[p].step = "toISOString"
                  /\ buffer[p] = remoteData[input[p].path].bytes
                  /\ Done(p) =>
                        /\ outcome[p].status = "rejected"
                        /\ session[p] = "disposed" /\ Called(p, "fs.unlink")

\* C25 witness: the remote stat exited 1 with nothing on stdout after the file
\* was fetched and read; the download ended rejected, cleaned up, nothing emitted.
C25_Witness ==
    \E p \in Procs :
        /\ Done(p) /\ KindOf(p) = "downloadFile"
        /\ res[p]["stat"].code = 1 /\ res[p]["stat"].stdout = <<>>
        /\ outcome[p].status = "rejected" /\ outcome[p].msg = "Invalid time value"
        /\ emitted[p] = <<>> /\ session[p] = "disposed" /\ Called(p, "fs.unlink")
        /\ ~LocalArtifactExists(p)

\* The eight signals of Host Metadata.
SignalNames ==
    {"hostname", "osType", "osRelease", "architecture", "uptime", "loadAverage",
     "memoryTotal", "memoryFree"}

====
